---- MODULE Spec2Model ----
(***************************************************************************)
(* A model of the project analysis engine of v-noc/IDE:                    *)
(*   - ProjectScanner (backend/app/core/parser/project_scanner.py) with    *)
(*     its SymbolTable, PythonFileParser and dependency visitor;           *)
(*   - ProjectAnalyzer / AnalysisOrchestrator                              *)
(*     (enhanced_parser_design/implementations/project_analyzer.py).       *)
(*                                                                         *)
(* Conventions.  A qname "a.b.c" is the sequence <<"a","b","c">> of its    *)
(* dot-separated parts (str.split('.') / '.'.join); names never contain a  *)
(* dot.  A database id is a positive integer; None and the empty string    *)
(* (both falsy in the source) are NoId.  A parsed file is a sequence of    *)
(* AST nodes in source (preorder) order, each naming its parent (0 is the  *)
(* module); node i stands on line i.                                       *)
(***************************************************************************)
EXTENDS Integers, Sequences, FiniteSets, TLC

\* ------------------------------------------------------------------ bounds
MaxFiles == 2        \* files of a scanned project
MaxAnalyzed == 3     \* files a ProjectAnalyzer run discovers
BatchSize == 2       \* config.parallel_batch_size of the modelled runs
MaxTableOps == 3     \* calls made on one SymbolTable
MaxCalls == 2        \* calls made on one ProjectAnalyzer

NoId == 0

\* ----------------------------------------------------------------- helpers
Put(m, k, v) == [x \in (DOMAIN m) \cup {k} |-> IF x = k THEN v ELSE m[x]]

Get(m, k) == IF k \in DOMAIN m THEN m[k] ELSE NoId

EmptyMap == [x \in {} |-> NoId]

IsPrefix(p, q) == Len(p) <= Len(q) /\ SubSeq(q, 1, Len(p)) = p

Front(s) == SubSeq(s, 1, Len(s) - 1)

Last(s) == s[Len(s)]

Range(s) == {s[i] : i \in DOMAIN s}

\* ------------------------------------------------------------ AST nodes
Cls(name, parent) == [kind |-> "class", name |-> name, parent |-> parent]

Fn(name, parent) == [kind |-> "func", name |-> name, parent |-> parent]

\* import <name> [as <asname>]; asname <<>> when absent
Imp(name, asname, parent) ==
  [kind |-> "import", name |-> name, asname |-> asname, parent |-> parent]

\* from <dots level><module> import <name> [as <asname>]; module <<>> is None
ImpFrom(module, level, name, asname, parent) ==
  [kind |-> "importfrom", module |-> module, level |-> level, name |-> name,
   asname |-> asname, parent |-> parent]

\* expression nodes: ast.Name, ast.Attribute and any other expression (a call)
Name(id) == [type |-> "Name", id |-> id]

Attribute(value, attr) == [type |-> "Attribute", value |-> value, attr |-> attr]

OtherExpr == [type |-> "Call"]

\* the tree the parser builds for the source text a.b.c (rooted, chain
\* <<"a","b","c">>) or f().b.c (not rooted, chain <<"b","c">>)
RECURSIVE ParseExpr(_, _)
ParseExpr(chain, rooted) ==
  IF rooted /\ Len(chain) = 1 THEN Name(chain[1])
  ELSE IF chain = <<>> THEN OtherExpr
  ELSE Attribute(ParseExpr(Front(chain), rooted), Last(chain))

\* an expression a.b.c (chain), in Load or Store context; rooted is FALSE
\* when the innermost value is not a simple name (f().b.c); expr is its tree
Use(chain, load, rooted, parent) ==
  [kind |-> "use", chain |-> chain, load |-> load, rooted |-> rooted,
   expr |-> ParseExpr(chain, rooted), parent |-> parent]

\* ast node positions: node i starts on line i and ends on the line of its
\* last descendant
RECURSIVE IsAncestor(_, _, _)
IsAncestor(ast, a, i) ==
  IF i = 0 THEN FALSE
  ELSE ast[i].parent = a \/ IsAncestor(ast, a, ast[i].parent)

lineno(ast, i) == i

end_lineno(ast, i) ==
  LET below == {j \in DOMAIN ast : IsAncestor(ast, i, j)}
  IN IF below = {} THEN i ELSE CHOOSE j \in below : \A k \in below : k <= j

\* ------------------------------------------------------------ SymbolTable
\* _qname_to_id is a map qname -> id, _file_id_to_imports a map
\* file id -> (alias -> qname); an alias is the sequence of the parts of the
\* imported name's string ("np" is <<"np">>, "os.path" is <<"os","path">>).
add_symbol(q2i, qname, db_id) == Put(q2i, qname, db_id)

add_import(imports, file_id, alias, qname) ==
  LET own == IF file_id \in DOMAIN imports THEN imports[file_id] ELSE EmptyMap
  IN Put(imports, file_id, Put(own, alias, qname))

\* resolve_import_qname looking the name up in the imports of any file
resolve_import_qname_any_file(imports, file_id, name) ==
  IF \E f \in DOMAIN imports : name \in DOMAIN imports[f]
  THEN imports[CHOOSE f \in DOMAIN imports : name \in DOMAIN imports[f]][name]
  ELSE <<>>

\* None is <<>>
resolve_import_qname(imports, file_id, name) ==
  IF file_id \notin DOMAIN imports THEN <<>>
  ELSE IF name \notin DOMAIN imports[file_id] THEN <<>>
  ELSE imports[file_id][name]

\* is_local_module looking at proper prefixes and children only
is_local_module_proper(q2i, qname) ==
  IF \E i \in 1..(Len(qname) - 1) : SubSeq(qname, 1, i) \in DOMAIN q2i THEN TRUE
  ELSE \E known \in DOMAIN q2i : Len(known) > Len(qname) /\ IsPrefix(qname, known)

\* is_local_module without the third tier (a known qname below qname)
is_local_module_no_children(q2i, qname) ==
  IF qname \in DOMAIN q2i THEN TRUE
  ELSE \E i \in 1..Len(qname) : SubSeq(qname, 1, i) \in DOMAIN q2i

is_local_module(q2i, qname) ==
  IF qname \in DOMAIN q2i THEN TRUE
  ELSE IF \E i \in 1..Len(qname) : SubSeq(qname, 1, i) \in DOMAIN q2i THEN TRUE
  ELSE \E known \in DOMAIN q2i : Len(known) > Len(qname) /\ IsPrefix(qname, known)

get_symbol_id(q2i, qname) == Get(q2i, qname)

\* str.replace('.', '_') on the dotted string of a qname: the pieces between
\* underscores; a part that itself holds an underscore ("a_b") gives two.
Pieces(part) == IF part = "a_b" THEN <<"a", "b">> ELSE <<part>>

RECURSIVE Sanitize(_)
Sanitize(qname) ==
  IF qname = <<>> THEN <<>> ELSE Pieces(Head(qname)) \o Sanitize(Tail(qname))

\* the string "package_<sanitized>" as an id: placeholder ids are the
\* negative integers, one for each sanitized string (database ids are
\* positive)
RECURSIVE StringCode(_)
StringCode(pieces) ==
  IF pieces = <<>> THEN 0
  ELSE 3 * StringCode(Front(pieces)) + (IF Last(pieces) = "a" THEN 1 ELSE 2)

placeholder_id(package_qname) == 0 - (1 + StringCode(Sanitize(package_qname)))

\* get_or_create_package_id that ignores an id registered before
get_or_create_package_id_fresh(q2i, package_qname) ==
  [id |-> placeholder_id(package_qname),
   q2i |-> Put(q2i, package_qname, placeholder_id(package_qname))]

\* the returned id and the table after the call
get_or_create_package_id(q2i, package_qname) ==
  IF package_qname \in DOMAIN q2i
  THEN [id |-> q2i[package_qname], q2i |-> q2i]
  ELSE [id |-> placeholder_id(package_qname),
        q2i |-> Put(q2i, package_qname, placeholder_id(package_qname))]

\* clear_file_imports dropping the imports of every file
clear_all_imports(imports, file_id) == EmptyMap

clear_file_imports(imports, file_id) ==
  IF file_id \in DOMAIN imports
  THEN [f \in (DOMAIN imports) \ {file_id} |-> imports[f]]
  ELSE imports

\* ---------------------------------------------------------------- ASTCache
\* cache is _file_asts.  Both methods have the body "pass": get returns
\* None for every path (<<>>, and cache_has, the caller's "is not None"
\* test, is false) and set leaves _file_asts as it is.
cache_get(cache, file_path) == <<>>

cache_has(cache, file_path) == FALSE

cache_set(cache, file_path, tree) == cache

\* ------------------------------------------------------ declaration pass
\* A file path relative to the project root: the folders and the file name
\* split in stem and extension (find_files keeps the ".py" files only).
Path(dirs, stem) == [dirs |-> dirs, stem |-> stem, ext |-> "py"]

\* relative path with ".py" removed and "/" replaced by "."
module_path(file_path) == file_path.dirs \o <<file_path.stem>>

get_qname(file_path, parts) == module_path(file_path) \o parts

\* DeclarationVisitor: a function is recorded and not descended into, a class
\* is recorded and its body is traversed.
Recorded(ast, i) ==
  /\ ast[i].kind \in {"class", "func"}
  /\ \A a \in DOMAIN ast : IsAncestor(ast, a, i) => ast[a].kind # "func"

Indices(ast) == [i \in 1..Len(ast) |-> i]

declared_classes(ast) ==
  LET Keep(i) == Recorded(ast, i) /\ ast[i].kind = "class"
  IN SelectSeq(Indices(ast), Keep)

declared_functions(ast) ==
  LET Keep(i) == Recorded(ast, i) /\ ast[i].kind = "func"
  IN SelectSeq(Indices(ast), Keep)

\* the span test with the class's last line excluded
IsMethodOfStrict(ast, f, c) ==
  lineno(ast, f) >= lineno(ast, c) /\ end_lineno(ast, f) < end_lineno(ast, c)

\* the span test of run_declaration_pass
IsMethodOf(ast, f, c) ==
  lineno(ast, f) >= lineno(ast, c) /\ end_lineno(ast, f) <= end_lineno(ast, c)

DeclNode(kind, ast, i, qname) ==
  [kind |-> kind, name |-> ast[i].name, qname |-> qname,
   line_no |-> lineno(ast, i), end_line_no |-> end_lineno(ast, i)]

\* the nodes appended for one class: the ClassNode, then its methods
ClassNodes(file_path, ast, c) ==
  LET funcs == declared_functions(ast)
      Inside(f) == IsMethodOf(ast, f, c)
      methods == SelectSeq(funcs, Inside)
  IN <<DeclNode("class", ast, c, get_qname(file_path, <<ast[c].name>>))>>
     \o [k \in 1..Len(methods) |->
           DeclNode("function", ast, methods[k],
                    get_qname(file_path, <<ast[c].name, ast[methods[k]].name>>))]

RECURSIVE AllClassNodes(_, _, _, _)
AllClassNodes(file_path, ast, classes, k) ==
  IF k > Len(classes) THEN <<>>
  ELSE ClassNodes(file_path, ast, classes[k])
       \o AllClassNodes(file_path, ast, classes, k + 1)

processed_funcs(ast) ==
  {f \in Range(declared_functions(ast)) :
     \E c \in Range(declared_classes(ast)) : IsMethodOf(ast, f, c)}

RemainingFunctions(file_path, ast) ==
  LET done == processed_funcs(ast)
      Free(f) == f \notin done
      rest == SelectSeq(declared_functions(ast), Free)
  IN [k \in 1..Len(rest) |->
        DeclNode("function", ast, rest[k],
                 get_qname(file_path, <<ast[rest[k]].name>>))]

\* content is [status |-> "ok" | "syntax_error", ast |-> ...]; a syntax error
\* gives the empty list
run_declaration_pass(file_path, content) ==
  IF content.status # "ok" THEN <<>>
  ELSE AllClassNodes(file_path, content.ast, declared_classes(content.ast), 1)
       \o RemainingFunctions(file_path, content.ast)

\* --------------------------------------------------------- dependency pass
\* the first qname registered with the file's id ("unknown_file" when none);
\* ids are unique per node, so at most one qname carries the file's id
get_file_qname_from_context(q2i, file_id) ==
  IF \E q \in DOMAIN q2i : q2i[q] = file_id
  THEN CHOOSE q \in DOMAIN q2i : q2i[q] = file_id
  ELSE <<"unknown_file">>

\* get_relative_import_base removing one part fewer than the level
get_relative_import_base_short(q2i, file_id, level) ==
  LET parts == get_file_qname_from_context(q2i, file_id)
  IN IF level >= Len(parts) THEN <<>>
     ELSE IF level > 0 THEN SubSeq(parts, 1, Len(parts) - level + 1)
     ELSE parts

\* "" is <<>>
get_relative_import_base(q2i, file_id, level) ==
  LET parts == get_file_qname_from_context(q2i, file_id)
  IN IF level >= Len(parts) THEN <<>>
     ELSE IF level > 0 THEN SubSeq(parts, 1, Len(parts) - level)
     ELSE parts

\* the walk down the .value links of an attribute access: every attr is
\* inserted at the front, a Name ends the walk, anything else gives []
RECURSIVE ChainWalk(_, _)
ChainWalk(current, chain) ==
  IF current.type = "Attribute"
  THEN ChainWalk(current.value, <<current.attr>> \o chain)
  ELSE IF current.type = "Name" THEN <<current.id>> \o chain
  ELSE <<>>

\* the walk appending each name instead of inserting it at the front
RECURSIVE ChainWalkAppending(_, _)
ChainWalkAppending(current, chain) ==
  IF current.type = "Attribute"
  THEN ChainWalkAppending(current.value, Append(chain, current.attr))
  ELSE IF current.type = "Name" THEN Append(chain, current.id)
  ELSE <<>>

reconstruct_attribute_chain_appending(node) == ChainWalkAppending(node.value, <<node.attr>>)

\* the chain of names of an ast.Attribute node, [] when its root is no Name
reconstruct_attribute_chain(node) == ChainWalk(node.value, <<node.attr>>)

\* DependencyContextManager: the state in which the children of node i are
\* visited.  visited is FALSE when the traversal does not reach them.
ModuleCtx == [visited |-> TRUE, current_consumer_id |-> NoId, class_stack |-> <<>>]

visit_function_def(q2i, file_id, node, ctx) ==
  LET file_qname == get_file_qname_from_context(q2i, file_id)
      function_qname == IF ctx.class_stack # <<>>
                        THEN file_qname \o ctx.class_stack \o <<node.name>>
                        ELSE file_qname \o <<node.name>>
      function_id == Get(q2i, function_qname)
  IN IF function_id # NoId
     THEN [ctx EXCEPT !.current_consumer_id = function_id]
     ELSE [ctx EXCEPT !.visited = FALSE]

visit_class_def(q2i, file_id, node, ctx) ==
  LET stack == Append(ctx.class_stack, node.name)
      class_qname == get_file_qname_from_context(q2i, file_id) \o stack
      class_id == Get(q2i, class_qname)
  IN IF class_id # NoId
     THEN [ctx EXCEPT !.current_consumer_id = class_id, !.class_stack = stack]
     ELSE [ctx EXCEPT !.class_stack = stack]

RECURSIVE BodyCtx(_, _, _, _)
BodyCtx(ast, q2i, file_id, i) ==
  IF i = 0 THEN ModuleCtx
  ELSE LET ctx == BodyCtx(ast, q2i, file_id, ast[i].parent)
       IN IF ~ctx.visited THEN ctx
          ELSE IF ast[i].kind = "func" THEN visit_function_def(q2i, file_id, ast[i], ctx)
          ELSE IF ast[i].kind = "class" THEN visit_class_def(q2i, file_id, ast[i], ctx)
          ELSE ctx

\* the name an import statement binds
UsedName(node) ==
  IF node.kind = "import"
  THEN (IF node.asname # <<>> THEN node.asname ELSE node.name)
  ELSE (IF node.asname # <<>> THEN node.asname ELSE <<node.name>>)

\* line of the first processed import statement that introduced alias, 0 if none
find_import_position(ast, processed_imports, alias) ==
  LET hits == {k \in DOMAIN processed_imports :
                 UsedName(ast[processed_imports[k]]) = alias}
  IN IF hits = {} THEN 0
     ELSE lineno(ast, processed_imports[CHOOSE k \in hits : \A j \in hits : k <= j])

create_usage_edge(ast, current_consumer_id, processed_imports, target_qname, target_symbol, alias, usage_position) ==
  LET found == find_import_position(ast, processed_imports, alias)
  IN [from_id |-> current_consumer_id,
      to_id |-> NoId,
      target_symbol |-> target_symbol,
      target_qname |-> target_qname,
      alias |-> alias,
      import_position |-> IF found = 0 THEN usage_position ELSE found,
      usage_position |-> usage_position]

\* UsageDetector.detect_name_usage on a Name node in Load context
detect_name_usage(ast, imports, file_id, consumer, processed, name, line) ==
  LET resolved_qname == resolve_import_qname(imports, file_id, <<name>>)
  IN IF resolved_qname # <<>>
     THEN <<create_usage_edge(ast, consumer, processed, resolved_qname, name,
                              <<name>>, line)>>
     ELSE <<>>

\* UsageDetector.detect_attribute_usage on the chain a.b.c, followed by the
\* visit of its value a.b (an Attribute or a Name in Load context)
RECURSIVE detect_attribute_usage(_, _, _, _, _, _, _)
detect_attribute_usage(ast, imports, file_id, consumer, processed, chain, line) ==
  IF Len(chain) = 1
  THEN detect_name_usage(ast, imports, file_id, consumer, processed, chain[1], line)
  ELSE LET resolved_qname == resolve_import_qname(imports, file_id, <<chain[1]>>)
           own == IF resolved_qname # <<>>
                  THEN <<create_usage_edge(ast, consumer, processed,
                                           resolved_qname \o Tail(chain),
                                           Last(chain), <<chain[1]>>, line)>>
                  ELSE <<>>
       IN own \o detect_attribute_usage(ast, imports, file_id, consumer,
                                        processed, Front(chain), line)

\* visit_Name / visit_Attribute on the expression of node i; other
\* expressions are left to generic_visit, which finds no name in them
UsageEdges(ast, imports, file_id, consumer, processed, i) ==
  IF consumer = NoId \/ ~ast[i].load THEN <<>>
  ELSE IF ast[i].expr.type = "Name"
       THEN detect_name_usage(ast, imports, file_id, consumer, processed,
                              ast[i].expr.id, lineno(ast, i))
  ELSE IF ast[i].expr.type # "Attribute" THEN <<>>
  ELSE IF reconstruct_attribute_chain(ast[i].expr) = <<>> THEN <<>>
  ELSE detect_attribute_usage(ast, imports, file_id, consumer, processed,
                              reconstruct_attribute_chain(ast[i].expr), lineno(ast, i))

process_import(imports, file_id, node) ==
  add_import(imports, file_id, UsedName(node), node.name)

process_import_from(q2i, imports, file_id, node) ==
  LET base_module == IF node.module = <<>>
                     THEN get_relative_import_base(q2i, file_id, node.level)
                     ELSE node.module
      full_qname == IF base_module # <<>> THEN base_module \o <<node.name>>
                    ELSE <<node.name>>
  IN IF node.name = "*" THEN imports
     ELSE add_import(imports, file_id, UsedName(node), full_qname)

\* one step of DependencyVisitor.visit; st is [imports, results, processed]
VisitNode(ast, q2i, file_id, i, st) ==
  LET ctx == BodyCtx(ast, q2i, file_id, ast[i].parent)
  IN IF ~ctx.visited THEN st
     ELSE IF ast[i].kind = "import"
     THEN [st EXCEPT !.imports = process_import(st.imports, file_id, ast[i]),
                     !.processed = Append(st.processed, i)]
     ELSE IF ast[i].kind = "importfrom"
     THEN [st EXCEPT !.imports = process_import_from(q2i, st.imports, file_id, ast[i]),
                     !.processed = Append(st.processed, i)]
     ELSE IF ast[i].kind = "use"
     THEN [st EXCEPT !.results = st.results \o
             UsageEdges(ast, st.imports, file_id, ctx.current_consumer_id,
                        st.processed, i)]
     ELSE st

RECURSIVE DependencyVisitor(_, _, _, _, _)
DependencyVisitor(ast, q2i, file_id, i, st) ==
  IF i > Len(ast) THEN st
  ELSE DependencyVisitor(ast, q2i, file_id, i + 1, VisitNode(ast, q2i, file_id, i, st))

\* run_detail_pass whose failure path drops the imports registered so far
run_detail_pass_forgets_imports(cache, q2i, imports, file_path, file_id, content) ==
  IF ~cache_has(cache, file_path) /\ content.status # "ok"
  THEN [results |-> <<>>, imports |-> EmptyMap, cache |-> cache]
  ELSE LET tree == IF cache_has(cache, file_path) THEN cache_get(cache, file_path)
                   ELSE content.ast
           st == DependencyVisitor(tree, q2i, file_id, 1,
                   [imports |-> imports, results |-> <<>>, processed |-> <<>>])
       IN [results |-> st.results, imports |-> st.imports,
           cache |-> cache_set(cache, file_path, tree)]

\* PythonFileParser.run_detail_pass: [results, imports, cache]; content is the
\* file on disk ([status |-> "ok" | "syntax_error" | "unreadable", ast |-> ...])
run_detail_pass(cache, q2i, imports, file_path, file_id, content) ==
  IF ~cache_has(cache, file_path) /\ content.status # "ok"
  THEN [results |-> <<>>, imports |-> imports, cache |-> cache]
  ELSE LET tree == IF cache_has(cache, file_path) THEN cache_get(cache, file_path)
                   ELSE content.ast
           st == DependencyVisitor(tree, q2i, file_id, 1,
                   [imports |-> imports, results |-> <<>>, processed |-> <<>>])
       IN [results |-> st.results, imports |-> st.imports,
           cache |-> cache_set(cache, file_path, tree)]

\* ------------------------------------------------------------------ inputs
\* the sources a scanned file may hold
SrcScenario ==      \* import numpy as np / class C: def m: np.array / def f: np
  <<Imp(<<"numpy">>, <<"np">>, 0), Cls("C", 0), Fn("m", 2),
    Use(<<"np", "array">>, TRUE, TRUE, 3), Fn("f", 0), Use(<<"np">>, TRUE, TRUE, 5)>>

SrcNumpy ==         \* import numpy / def f: numpy
  <<Imp(<<"numpy">>, <<>>, 0), Fn("f", 0), Use(<<"numpy">>, TRUE, TRUE, 2)>>

SrcProperty ==      \* class C with a getter and a setter m, both using os
  <<Imp(<<"os">>, <<>>, 0), Cls("C", 0), Fn("m", 2), Use(<<"os">>, TRUE, TRUE, 3),
    Fn("m", 2), Use(<<"os">>, FALSE, TRUE, 5)>>

SrcLocal ==         \* from a import f / def b: f ; f().x
  <<ImpFrom(<<"a">>, 0, "f", <<>>, 0), Fn("b", 0), Use(<<"f">>, TRUE, TRUE, 2),
    Use(<<"x">>, TRUE, FALSE, 2)>>

SrcNested ==        \* from . import x / class C: class D: def m: x / def f: def g: x
  <<ImpFrom(<<>>, 1, "x", <<>>, 0), Cls("C", 0), Cls("D", 2), Fn("m", 3),
    Use(<<"x">>, TRUE, TRUE, 4), Fn("f", 0), Fn("g", 6), Use(<<"x">>, TRUE, TRUE, 7)>>

SrcTwoClasses ==    \* class A: def m / class B: def m / def m
  <<Cls("A", 0), Fn("m", 1), Cls("B", 0), Fn("m", 3), Fn("m", 0)>>

Sources == {SrcScenario, SrcNumpy, SrcProperty, SrcLocal, SrcNested, SrcTwoClasses}

Contents ==
  [status : {"ok"}, ast : Sources]
    \cup {[status |-> "syntax_error", ast |-> <<>>],
          [status |-> "unreadable", ast |-> <<>>]}

CandidatePaths == {Path(<<>>, "a"), Path(<<>>, "b"), Path(<<"a">>, "b")}

\* find_files: the files in the order rglob yields them
FileLists ==
  {s \in UNION {[1..n -> CandidatePaths] : n \in 0..MaxFiles} :
     \A i, j \in DOMAIN s : i # j => s[i] # s[j]}

ProjectName == "proj"

\* ------------------------------------------------------------------- state
VARIABLES
  scan_pc,            \* ProjectScanner.scan: idle, declaration, dependency, done
  py_files,           \* the files found
  disk,               \* path -> content
  cursor,             \* index of the next file of the running loop
  file_node_id,       \* file node of the file being processed
  declared_nodes,     \* nodes returned by the last declaration pass
  node_index,         \* index of the next declared node to create
  dependency_edges,   \* edges returned by the detail pass, not yet processed
  qname_to_id,        \* SymbolTable._qname_to_id
  file_id_to_imports, \* SymbolTable._file_id_to_imports
  created_packages,   \* ProjectScanner.created_packages
  ast_cache,          \* ASTCache
  nodes,              \* collections.nodes: node i has id i
  contains_edges,     \* collections.contains_edges
  belongs_to_edges,   \* collections.belongs_to_edges
  uses_import_edges,  \* collections.uses_import_edges
  events              \* history: the passes started and finished, in order

VARIABLES
  an_pc,          \* position in ProjectAnalyzer.analyze_project / orchestrator.run
  report,         \* the AnalysisReport of the call
  metrics,        \* AnalysisOrchestrator.metrics
  files,          \* run(): the discovered files
  batch_start,    \* _run_declaration_phase: i, first index of the batch (0-based)
  tasks,          \* the batch's tasks: file -> [pc, result]
  batch_results,  \* file -> result, for every batch gathered so far
  file_index,     \* _run_analysis_phase: index of the next file
  stored_nodes,   \* what _store_nodes has persisted
  stored_edges,   \* what _store_edges has persisted
  result,         \* the AnalysisResult returned ("none" before)
  escaped         \* the phase an exception escaped from ("none" if none did)

VARIABLES
  self_config,      \* ProjectAnalyzer.config, the analyzer's default AnalyzerConfig
  analysis_config,  \* the AnalyzerConfig the current call runs with
  discovered,       \* run(): what _discover_files returned, before any filter
  calls             \* history: the calls made on the ProjectAnalyzer, in order

callVars == <<self_config, analysis_config, discovered, calls>>

analyzeVars == <<an_pc, report, metrics, files, batch_start, tasks, batch_results,
                 file_index, stored_nodes, stored_edges, result, escaped, callVars>>

scanVars == <<scan_pc, py_files, disk, cursor, file_node_id, declared_nodes, node_index,
              dependency_edges, qname_to_id, file_id_to_imports,
              created_packages, ast_cache, nodes, contains_edges,
              belongs_to_edges, uses_import_edges>>

tableRest == <<scan_pc, py_files, disk, cursor, file_node_id, declared_nodes,
               node_index, dependency_edges, created_packages, ast_cache, nodes,
               contains_edges, belongs_to_edges, uses_import_edges>>

\* one DependencyVisitor.visit call followed step by step: the tree and the
\* file id of its VisitorContext, the next node to visit, the open
\* visit_function_def / visit_class_def calls (innermost last) with their
\* local previous_consumer and, for reference, the context manager's fields
\* at the call (before), the context manager's fields, context.results and
\* the import processor's list
VARIABLES v_pc, v_ast, v_file_id, v_next, v_frames, current_consumer_id, class_stack, v_results, processed_imports

visitVars == <<v_pc, v_ast, v_file_id, v_next, v_frames, current_consumer_id,
               class_stack, v_results, processed_imports>>

\* ---------------------------------------------------------- ProjectScanner
project_id == 1

\* collections.nodes.create: the store and the id given to the new node
create_node(db, node) == Append(db, node)

\* create_nodes_and_edges_from_tree over the tree build_tree_from_paths makes:
\* the keys of one level in first-appearance order, folders descended into
TreeKey(p, depth) ==
  IF Len(p.dirs) = depth THEN <<"file", p.stem>> ELSE <<"folder", p.dirs[depth + 1]>>

RECURSIVE create_nodes_and_edges_from_tree(_, _, _, _, _)
create_nodes_and_edges_from_tree(paths, depth, parent, i, st) ==
  IF i > Len(paths) THEN st
  ELSE
    LET p == paths[i]
        key == TreeKey(p, depth)
        seen == \E j \in 1..(i - 1) : TreeKey(paths[j], depth) = key
        id == Len(st.nodes) + 1
        qname == IF key[1] = "file" THEN module_path(p)
                 ELSE SubSeq(p.dirs, 1, depth + 1)
        made == [nodes |-> create_node(st.nodes,
                              [kind |-> key[1], name |-> key[2], qname |-> <<key[2]>>]),
                 contains |-> st.contains \cup {<<parent, id>>},
                 belongs |-> st.belongs \cup {<<id, project_id>>},
                 q2i |-> add_symbol(st.q2i, qname, id)]
        Below(q) == TreeKey(q, depth) = key
    IN IF seen THEN create_nodes_and_edges_from_tree(paths, depth, parent, i + 1, st)
       ELSE IF key[1] = "file"
       THEN create_nodes_and_edges_from_tree(paths, depth, parent, i + 1, made)
       ELSE create_nodes_and_edges_from_tree(paths, depth, parent, i + 1,
              create_nodes_and_edges_from_tree(SelectSeq(paths, Below), depth + 1,
                                               id, 1, made))

get_file_qname_from_path(file_path) == module_path(file_path)

\* scan, lines 178-197: the project node, then the folder and file nodes
ScanStart ==
  /\ UNCHANGED <<analyzeVars, visitVars>>
  /\ an_pc = "idle"
  /\ scan_pc = "idle"
  /\ \E found \in FileLists :
       \E d \in [Range(found) -> Contents] :
         LET project == [kind |-> "project", name |-> ProjectName,
                         qname |-> <<ProjectName>>]
             st == create_nodes_and_edges_from_tree(found, 0, project_id, 1,
                     [nodes |-> create_node(nodes, project),
                      contains |-> contains_edges, belongs |-> belongs_to_edges,
                      q2i |-> add_symbol(qname_to_id, <<ProjectName>>, project_id)])
         IN /\ py_files' = found
            /\ disk' = d
            /\ nodes' = st.nodes
            /\ contains_edges' = st.contains
            /\ belongs_to_edges' = st.belongs
            /\ qname_to_id' = st.q2i
  /\ scan_pc' = "declaration"
  /\ cursor' = 1
  /\ events' = events
  /\ UNCHANGED <<file_node_id, declared_nodes, node_index, dependency_edges,
                 file_id_to_imports, created_packages, ast_cache,
                 uses_import_edges>>

\* scan, lines 200-218: one iteration of the second pass up to the
\* declaration pass of the file
DeclarationPass ==
  /\ UNCHANGED <<analyzeVars, visitVars>>
  /\ scan_pc = "declaration"
  /\ cursor <= Len(py_files)
  /\ node_index > Len(declared_nodes)
  /\ LET file_path == py_files[cursor]
         content == disk[file_path]
         id == Get(qname_to_id, get_file_qname_from_path(file_path))
         skipped == content.status = "unreadable" \/ id = NoId
     IN /\ file_node_id' = IF skipped THEN file_node_id ELSE id
        /\ declared_nodes' = IF skipped THEN declared_nodes
                             ELSE run_declaration_pass(file_path, content)
        /\ node_index' = IF skipped THEN node_index ELSE 1
        /\ ast_cache' = IF ~skipped /\ content.status = "ok"
                        THEN cache_set(ast_cache, file_path, content.ast)
                        ELSE ast_cache
        /\ events' = IF skipped THEN events
                     ELSE Append(events, <<"declaration", file_path>>)
  /\ cursor' = cursor + 1
  /\ UNCHANGED <<scan_pc, py_files, disk, dependency_edges, qname_to_id,
                 file_id_to_imports, created_packages, nodes, contains_edges,
                 belongs_to_edges, uses_import_edges>>

\* scan, lines 219-238: one iteration of the loop over the declared nodes
CreateDeclaredNode ==
  /\ UNCHANGED <<analyzeVars, visitVars>>
  /\ scan_pc = "declaration"
  /\ node_index <= Len(declared_nodes)
  /\ LET node == declared_nodes[node_index]
         id == Len(nodes) + 1
     IN /\ nodes' = create_node(nodes, node)
        /\ qname_to_id' = add_symbol(qname_to_id, node.qname, id)
        /\ contains_edges' = contains_edges \cup {<<file_node_id, id>>}
        /\ belongs_to_edges' = belongs_to_edges \cup {<<id, project_id>>}
  /\ node_index' = node_index + 1
  /\ UNCHANGED <<scan_pc, py_files, disk, cursor, file_node_id, declared_nodes,
                 dependency_edges,
                 file_id_to_imports, created_packages, ast_cache,
                 uses_import_edges, events>>

\* the third pass begun while files of the second pass are left
StartDependencyPhaseEarly ==
  /\ UNCHANGED <<analyzeVars, visitVars>>
  /\ scan_pc = "declaration"
  /\ cursor > 1
  /\ node_index > Len(declared_nodes)
  /\ scan_pc' = "dependency"
  /\ cursor' = 1
  /\ UNCHANGED <<py_files, disk, file_node_id, declared_nodes, node_index,
                 dependency_edges, qname_to_id, file_id_to_imports,
                 created_packages, ast_cache, nodes, contains_edges,
                 belongs_to_edges, uses_import_edges, events>>

\* scan, line 241: the second pass is over, the third begins
StartDependencyPhase ==
  /\ UNCHANGED <<analyzeVars, visitVars>>
  /\ scan_pc = "declaration"
  /\ cursor > Len(py_files)
  /\ node_index > Len(declared_nodes)
  /\ scan_pc' = "dependency"
  /\ cursor' = 1
  /\ UNCHANGED <<py_files, disk, file_node_id, declared_nodes, node_index,
                 dependency_edges,
                 qname_to_id, file_id_to_imports, created_packages, ast_cache,
                 nodes, contains_edges, belongs_to_edges, uses_import_edges,
                 events>>

\* scan, lines 242-253: one iteration of the third pass up to the detail pass
DetailPass ==
  /\ UNCHANGED <<analyzeVars, visitVars>>
  /\ scan_pc = "dependency"
  /\ cursor <= Len(py_files)
  /\ dependency_edges = <<>>
  /\ LET file_path == py_files[cursor]
         id == Get(qname_to_id, get_file_qname_from_path(file_path))
         r == run_detail_pass(ast_cache, qname_to_id, file_id_to_imports,
                              file_path, id, disk[file_path])
     IN IF id = NoId
        THEN UNCHANGED <<file_node_id, dependency_edges, file_id_to_imports,
                         ast_cache, events>>
        ELSE /\ file_node_id' = id
             /\ dependency_edges' = r.results
             /\ file_id_to_imports' = r.imports
             /\ ast_cache' = r.cache
             /\ events' = Append(events, <<"dependency", file_path>>)
  /\ cursor' = cursor + 1
  /\ UNCHANGED <<scan_pc, py_files, disk, declared_nodes, node_index, qname_to_id,
                 created_packages, nodes, contains_edges, belongs_to_edges,
                 uses_import_edges>>

\* a package node created for every edge: neither remembered nor registered
create_package_node_every_time(db, q2i, belongs, created, package_qname) ==
  LET id == Len(db) + 1
  IN [id |-> id,
      nodes |-> create_node(db, [kind |-> "package", name |-> Last(package_qname),
                                 qname |-> package_qname]),
      q2i |-> q2i,
      belongs |-> belongs \cup {<<id, project_id>>},
      created |-> created]

\* a package node remembered in created_packages but not registered in the
\* Symbol Table
create_package_node_unregistered(db, q2i, belongs, created, package_qname) ==
  IF package_qname \in created
  THEN [id |-> get_symbol_id(q2i, package_qname), nodes |-> db, q2i |-> q2i,
        belongs |-> belongs, created |-> created]
  ELSE LET id == Len(db) + 1
       IN [id |-> id,
           nodes |-> create_node(db, [kind |-> "package", name |-> Last(package_qname),
                                      qname |-> package_qname]),
           q2i |-> q2i,
           belongs |-> belongs \cup {<<id, project_id>>},
           created |-> created \cup {package_qname}]

\* _create_package_node: [id, nodes, q2i, belongs, created]
create_package_node(db, q2i, belongs, created, package_qname) ==
  IF package_qname \in created
  THEN [id |-> get_symbol_id(q2i, package_qname), nodes |-> db, q2i |-> q2i,
        belongs |-> belongs, created |-> created]
  ELSE LET id == Len(db) + 1
       IN [id |-> id,
           nodes |-> create_node(db, [kind |-> "package", name |-> Last(package_qname),
                                      qname |-> package_qname]),
           q2i |-> add_symbol(q2i, package_qname, id),
           belongs |-> belongs \cup {<<id, project_id>>},
           created |-> created \cup {package_qname}]

\* _process_dependency_edges, lines 148-171: one iteration of the loop
ProcessDependencyEdge ==
  /\ UNCHANGED <<analyzeVars, visitVars>>
  /\ scan_pc = "dependency"
  /\ dependency_edges # <<>>
  /\ LET edge == Head(dependency_edges)
         target_qname == edge.target_qname
         is_local == is_local_module(qname_to_id, target_qname)
         target_id == get_symbol_id(qname_to_id, target_qname)
         pkg == create_package_node(nodes, qname_to_id, belongs_to_edges,
                                    created_packages, target_qname)
     IN IF target_qname = <<>>
        THEN UNCHANGED <<nodes, qname_to_id, belongs_to_edges, created_packages,
                         uses_import_edges>>
        ELSE IF is_local
        THEN /\ uses_import_edges' =
                  IF target_id # NoId
                  THEN Append(uses_import_edges, [edge EXCEPT !.to_id = target_id])
                  ELSE uses_import_edges
             /\ UNCHANGED <<nodes, qname_to_id, belongs_to_edges, created_packages>>
        ELSE /\ nodes' = pkg.nodes
             /\ qname_to_id' = pkg.q2i
             /\ belongs_to_edges' = pkg.belongs
             /\ created_packages' = pkg.created
             /\ uses_import_edges' =
                  Append(uses_import_edges, [edge EXCEPT !.to_id = pkg.id])
  /\ dependency_edges' = Tail(dependency_edges)
  /\ UNCHANGED <<scan_pc, py_files, disk, cursor, file_node_id, declared_nodes,
                 node_index, file_id_to_imports, ast_cache, contains_edges, events>>

\* scan, lines 258-262: the third pass is over
ScanFinish ==
  /\ UNCHANGED <<analyzeVars, visitVars>>
  /\ scan_pc = "dependency"
  /\ cursor > Len(py_files)
  /\ dependency_edges = <<>>
  /\ scan_pc' = "done"
  /\ UNCHANGED <<py_files, disk, cursor, file_node_id, declared_nodes, node_index,
                 dependency_edges, qname_to_id, file_id_to_imports,
                 created_packages, ast_cache, nodes, contains_edges,
                 belongs_to_edges, uses_import_edges, events>>

ScanInit ==
  /\ scan_pc = "idle"
  /\ py_files = <<>>
  /\ disk = EmptyMap
  /\ cursor = 1
  /\ file_node_id = NoId
  /\ declared_nodes = <<>>
  /\ node_index = 1
  /\ dependency_edges = <<>>
  /\ qname_to_id = EmptyMap
  /\ file_id_to_imports = EmptyMap
  /\ created_packages = {}
  /\ ast_cache = EmptyMap
  /\ nodes = <<>>
  /\ contains_edges = {}
  /\ belongs_to_edges = {}
  /\ uses_import_edges = <<>>

ScanNext ==
  \/ ScanStart
  \/ DeclarationPass
  \/ CreateDeclaredNode
  \/ StartDependencyPhase
  \/ DetailPass
  \/ ProcessDependencyEdge
  \/ ScanFinish

\* ---------------------------------------------------------- AnalysisReport
NewReport == [status |-> "in_progress", issues |-> <<>>, infos |-> <<>>,
              completed_at |-> FALSE, duration_seconds |-> FALSE]

add_error(r, message, file_path) ==
  [r EXCEPT !.issues = Append(@, [severity |-> "error", message |-> message,
                                  file_path |-> file_path])]

\* an informational message, kept apart from the issues; AnalysisReport
\* (enhanced_models.py, lines 388-438) defines no add_info, so in the source
\* the call raises AttributeError: the raising branch of EnterPhase
add_info(r, message) == [r EXCEPT !.infos = Append(@, message)]

NewMetrics == [files_processed |-> 0, files_failed |-> 0, nodes_created |-> 0,
               edges_created |-> 0]

\* the File objects a project may hold, and the lists get_files may return
DiscoveredLists == {[i \in 1..n |-> i] : n \in 0..MaxAnalyzed}

\* ------------------------------------------------------------ AnalyzerConfig
\* AnalyzerConfig(): the fields the run reads
DefaultConfig == [incremental |-> FALSE, changed_files |-> <<>>]

\* File.path of the discovered files, as the pieces of the string
FilePath(f) ==
  IF f = 1 THEN <<"a.py">>
  ELSE IF f = 2 THEN <<"a", "/", "b.py">>
  ELSE IF f = 3 THEN <<"b.py">>
  ELSE <<"d.py">>

\* the same files as paths relative to the project root
AnalyzedPath(f) ==
  IF f = 1 THEN Path(<<>>, "a")
  ELSE IF f = 2 THEN Path(<<"a">>, "b")
  ELSE IF f = 3 THEN Path(<<>>, "b")
  ELSE Path(<<>>, "d")

\* the definition each file holds: a.py the method C of its class b, every
\* other file a function C
DeclaredParts(f) == IF f = 1 THEN <<"b", "C">> ELSE <<"C">>

\* the qname under which the declaration task of the file registers it
DeclaredQname(f) == get_qname(AnalyzedPath(f), DeclaredParts(f))

\* the changed_files lists a caller passes
ChangedLists == {<<>>, <<<<"b.py">>>>, <<<<"a.py">>>>, <<<<"a", "/", "b.py">>, <<"a.py">>>>}

\* str.endswith
endswith(string, suffix) ==
  Len(suffix) <= Len(string)
    /\ SubSeq(string, Len(string) - Len(suffix) + 1, Len(string)) = suffix

\* list(set(xs)): the elements once each, in an order of the set's choosing
ListOfSet(S) ==
  {o \in [1..Cardinality(S) -> S] : \A i, j \in 1..Cardinality(S) : i # j => o[i] # o[j]}

\* _filter_incremental_files with the empty _find_dependent_files: the lists
\* it may return
filter_incremental_files(config, fs) ==
  IF config.changed_files = <<>> THEN {fs}
  ELSE LET Matches(f) == \E k \in DOMAIN config.changed_files :
                           endswith(FilePath(f), config.changed_files[k])
           changed_files == SelectSeq(fs, Matches)
           dependent_files == <<>>
       IN ListOfSet(Range(changed_files \o dependent_files))

\* ----------------------------------------------------------- ProjectAnalyzer
\* analyze_project, lines 46-53: the report of the call
AnalyzeProject ==
  /\ an_pc = "idle"
  /\ scan_pc = "idle"
  /\ analysis_config' = self_config
  /\ calls' = Append(calls, "analyze_project")
  /\ report' = NewReport
  /\ an_pc' = "construct"
  /\ UNCHANGED <<metrics, files, batch_start, tasks, batch_results, file_index,
                 stored_nodes, stored_edges, result, escaped>>
  /\ UNCHANGED <<self_config, discovered, scanVars, visitVars, events>>

\* analyze_incremental, lines 111-116, then analyze_project as above;
\* explicit tells whether the caller passed a config of its own (a default
\* AnalyzerConfig()); without one, analysis_config is the object self.config
AnalyzeIncremental(changed_files, explicit) ==
  /\ an_pc = "idle"
  /\ scan_pc = "idle"
  /\ calls = <<>>
  /\ analysis_config' = [incremental |-> TRUE, changed_files |-> changed_files]
  /\ self_config' = IF explicit THEN self_config ELSE analysis_config'
  /\ calls' = Append(calls, "analyze_incremental")
  /\ report' = NewReport
  /\ an_pc' = "construct"
  /\ UNCHANGED <<metrics, files, batch_start, tasks, batch_results, file_index,
                 stored_nodes, stored_edges, result, escaped>>
  /\ UNCHANGED <<discovered, scanVars, visitVars, events>>

\* the call has returned and the client goes on to make another call on the
\* same ProjectAnalyzer: the report, the orchestrator and what the finished
\* call stored are the client's to keep, the analyzer keeps self.config
NextCall ==
  /\ an_pc = "returned"
  /\ Len(calls) < MaxCalls
  /\ an_pc' = "idle"
  /\ report' = [status |-> "pending", issues |-> <<>>, infos |-> <<>>,
                completed_at |-> FALSE, duration_seconds |-> FALSE]
  /\ metrics' = NewMetrics
  /\ files' = <<>>
  /\ discovered' = <<>>
  /\ batch_start' = 0
  /\ tasks' = EmptyMap
  /\ batch_results' = EmptyMap
  /\ file_index' = 1
  /\ stored_nodes' = {}
  /\ stored_edges' = {}
  /\ result' = [success |-> FALSE]
  /\ escaped' = "none"
  /\ events' = <<>>
  /\ qname_to_id' = EmptyMap
  /\ UNCHANGED <<self_config, analysis_config, calls, file_id_to_imports, tableRest,
                 visitVars>>

\* analyze_project, lines 57-62, AnalysisOrchestrator.__init__: the imports and
\* constructors of the components may raise
ConstructOrchestrator ==
  /\ an_pc = "construct"
  /\ \E raises \in BOOLEAN :
       IF raises
       THEN /\ an_pc' = "failed"
            /\ escaped' = "construct"
            /\ UNCHANGED metrics
       ELSE /\ an_pc' = "discovery"
            /\ metrics' = NewMetrics
            /\ UNCHANGED escaped
  /\ UNCHANGED <<report, files, batch_start, tasks, batch_results, file_index,
                 stored_nodes, stored_edges, result>>
  /\ UNCHANGED <<callVars, scanVars, visitVars, events>>

\* run, lines 166-171, with _discover_files and _filter_incremental_files:
\* get_files may raise, which is caught in _discover_files; the add_info of
\* the filter may raise, which escapes to run's handler before files is
\* assigned the filtered list and before files_processed is set
DiscoverFiles ==
  /\ an_pc = "discovery"
  /\ \E raises \in BOOLEAN, info_raises \in BOOLEAN, found \in DiscoveredLists :
       LET filtering == analysis_config.incremental /\ analysis_config.changed_files # <<>>
           found_report == IF raises THEN add_error(report, "File discovery failed", NoId)
                           ELSE report
       IN /\ raises => found = <<>>
          /\ info_raises => filtering
          /\ discovered' = found
          /\ IF info_raises
             THEN /\ files' = found
                  /\ report' = found_report
                  /\ an_pc' = "run_except"
                  /\ escaped' = "discovery"
                  /\ UNCHANGED metrics
             ELSE /\ \E kept \in (IF analysis_config.incremental
                                   THEN filter_incremental_files(analysis_config, found)
                                   ELSE {found}) :
                       /\ files' = kept
                       /\ metrics' = [metrics EXCEPT !.files_processed = Len(kept)]
                  /\ report' = IF filtering THEN add_info(found_report, "incremental")
                               ELSE found_report
                  /\ an_pc' = "declaration"
                  /\ UNCHANGED escaped
  /\ events' = Append(events, <<"discovery">>)
  /\ UNCHANGED <<batch_start, tasks, batch_results, file_index, stored_nodes,
                 stored_edges, result>>
  /\ UNCHANGED <<self_config, analysis_config, calls, scanVars, visitVars>>

\* the start of a phase: add_info and configure_for_phase, either of which
\* may raise; the exception escapes to run's handler
EnterPhase(phase, raises, next_pc) ==
  IF raises
  THEN /\ an_pc' = "run_except"
       /\ escaped' = phase
       /\ UNCHANGED <<report, events>>
  ELSE /\ an_pc' = next_pc
       /\ report' = add_info(report, phase)
       /\ events' = Append(events, <<phase>>)
       /\ UNCHANGED escaped

\* _run_declaration_phase, lines 264-270
StartDeclarationPhase ==
  /\ an_pc = "declaration"
  /\ \E raises \in BOOLEAN : EnterPhase("declaration", raises, "batch")
  /\ batch_start' = 0
  /\ UNCHANGED <<metrics, files, tasks, batch_results, file_index, stored_nodes,
                 stored_edges, result>>
  /\ UNCHANGED <<callVars, scanVars, visitVars>>

\* a slice one file longer than the batch size
BatchWide(fs, i) == SubSeq(fs, i + 1, IF i + BatchSize + 1 < Len(fs) THEN i + BatchSize + 1 ELSE Len(fs))

\* files[i:i + batch_size]
Batch(fs, i) == SubSeq(fs, i + 1, IF i + BatchSize < Len(fs) THEN i + BatchSize ELSE Len(fs))

\* _run_declaration_phase, lines 271-280: the tasks of one batch are created
\* and handed to asyncio.gather
StartBatch ==
  /\ an_pc = "batch"
  /\ batch_start < Len(files)
  /\ tasks' = [f \in Range(Batch(files, batch_start)) |->
                 [pc |-> "parse", result |-> "none"]]
  /\ an_pc' = "gather"
  /\ UNCHANGED <<report, metrics, files, batch_start, batch_results, file_index,
                 stored_nodes, stored_edges, result, escaped>>
  /\ UNCHANGED <<callVars, scanVars, visitVars, events>>

\* the nodes the declaration visitors find in a file
NodesOf(f) == {<<f, "decl">>}

\* _store_nodes: successful results are persisted immediately
store_nodes(stored, ns) == stored \cup ns

\* visitor_pipeline.process_file_phase(phase="declaration"): the declaration
\* visitors register what the file declares in the shared Symbol Table
register_declarations(q2i, f) == add_symbol(q2i, DeclaredQname(f), f)

\* _process_file_declarations, lines 298-323: one await of one task; an
\* exception of the awaited call is caught at line 319
TaskStep(f) ==
  /\ an_pc = "gather"
  /\ f \in DOMAIN tasks
  /\ tasks[f].pc # "done"
  /\ \E raises \in BOOLEAN :
       IF raises
       THEN /\ tasks' = [tasks EXCEPT ![f] = [pc |-> "done", result |-> "error"]]
            /\ UNCHANGED stored_nodes
       ELSE IF tasks[f].pc = "parse"
       THEN /\ tasks' = [tasks EXCEPT ![f].pc = "visit"]
            /\ UNCHANGED stored_nodes
       ELSE IF tasks[f].pc = "visit"
       THEN /\ tasks' = [tasks EXCEPT ![f].pc = "store"]
            /\ UNCHANGED stored_nodes
       ELSE /\ tasks' = [tasks EXCEPT ![f] = [pc |-> "done", result |-> "nodes"]]
            /\ stored_nodes' = store_nodes(stored_nodes, NodesOf(f))
  /\ qname_to_id' = IF tasks[f].pc = "visit" /\ tasks'[f].pc = "store"
                    THEN register_declarations(qname_to_id, f)
                    ELSE qname_to_id
  /\ events' = IF tasks[f].pc = "parse" THEN Append(events, <<"declaration", f>>)
               ELSE events
  /\ UNCHANGED <<an_pc, report, metrics, files, batch_start, batch_results,
                 file_index, stored_edges, result, escaped>>
  /\ UNCHANGED <<callVars, file_id_to_imports, tableRest, visitVars>>

\* _run_declaration_phase, lines 283-292, for one (file, result) pair; a
\* result is the dict _process_file_declarations returned, with or without
\* 'nodes'
HandleResult(st, f, res) ==
  IF res = "exception"
  THEN [report |-> add_error(st.report, "Declaration phase failed", f),
        metrics |-> [st.metrics EXCEPT !.files_failed = @ + 1]]
  ELSE [report |-> st.report,
        metrics |-> [st.metrics EXCEPT !.nodes_created =
                       @ + (IF res = "nodes" THEN Cardinality(NodesOf(f)) ELSE 0)]]

RECURSIVE HandleResults(_, _, _, _)
HandleResults(st, batch, results, k) ==
  IF k > Len(batch) THEN st
  ELSE HandleResults(HandleResult(st, batch[k], results[batch[k]].result),
                     batch, results, k + 1)

\* asyncio.gather has returned: every task of the batch is done
GatherDone == \A f \in DOMAIN tasks : tasks[f].pc = "done"

\* _run_declaration_phase, lines 280-292: the results of the batch
JoinBatch ==
  /\ an_pc = "gather"
  /\ GatherDone
  /\ LET st == HandleResults([report |-> report, metrics |-> metrics],
                             Batch(files, batch_start), tasks, 1)
     IN /\ report' = st.report
        /\ metrics' = st.metrics
  /\ batch_results' = [f \in (DOMAIN batch_results) \cup (DOMAIN tasks) |->
                         IF f \in DOMAIN tasks THEN tasks[f].result
                         ELSE batch_results[f]]
  /\ tasks' = EmptyMap
  /\ batch_start' = batch_start + BatchSize
  /\ an_pc' = "batch"
  /\ UNCHANGED <<files, file_index, stored_nodes, stored_edges, result, escaped>>
  /\ UNCHANGED <<callVars, scanVars, visitVars, events>>

\* _run_analysis_phase, lines 330-333, entered when the batch loop is over
StartAnalysisPhase ==
  /\ an_pc = "batch"
  /\ batch_start >= Len(files)
  /\ \E raises \in BOOLEAN : EnterPhase("dependency", raises, "analysis")
  /\ file_index' = 1
  /\ UNCHANGED <<metrics, files, batch_start, tasks, batch_results, stored_nodes,
                 stored_edges, result>>
  /\ UNCHANGED <<callVars, scanVars, visitVars>>

\* _run_analysis_phase, lines 337-345, with _process_file_analysis
AnalyzeFile ==
  /\ an_pc = "analysis"
  /\ file_index <= Len(files)
  /\ LET f == files[file_index]
     IN \E raises \in BOOLEAN :
          IF raises
          THEN /\ report' = add_error(report, "Analysis phase failed", f)
               /\ metrics' = [metrics EXCEPT !.files_failed = @ + 1]
               /\ UNCHANGED stored_edges
          ELSE /\ stored_edges' = stored_edges \cup {<<f, "edge">>}
               /\ metrics' = [metrics EXCEPT !.edges_created = @ + 1]
               /\ UNCHANGED report
  /\ events' = Append(events, <<"dependency", files[file_index]>>)
  /\ file_index' = file_index + 1
  /\ UNCHANGED <<an_pc, files, batch_start, tasks, batch_results, stored_nodes,
                 result, escaped>>
  /\ UNCHANGED <<callVars, scanVars, visitVars>>

\* _run_linking_phase
LinkingPhase ==
  /\ an_pc = "analysis"
  /\ file_index > Len(files)
  /\ \E raises \in BOOLEAN : EnterPhase("linking", raises, "post_processing")
  /\ UNCHANGED <<metrics, files, batch_start, tasks, batch_results, file_index,
                 stored_nodes, stored_edges, result>>
  /\ UNCHANGED <<callVars, scanVars, visitVars>>

\* _run_post_processing
PostProcessing ==
  /\ an_pc = "post_processing"
  /\ \E raises \in BOOLEAN : EnterPhase("post_processing", raises, "run_return")
  /\ UNCHANGED <<metrics, files, batch_start, tasks, batch_results, file_index,
                 stored_nodes, stored_edges, result>>
  /\ UNCHANGED <<callVars, scanVars, visitVars>>

\* the handler undoing what the run has stored
RunExceptRollsBack ==
  /\ an_pc = "run_except"
  /\ report' = add_error(report, "Orchestration failed", NoId)
  /\ metrics' = [metrics EXCEPT !.files_failed = @ + Len(files)]
  /\ stored_nodes' = {}
  /\ stored_edges' = {}
  /\ an_pc' = "run_return"
  /\ UNCHANGED <<files, batch_start, tasks, batch_results, file_index, result,
                 escaped>>
  /\ UNCHANGED <<callVars, scanVars, visitVars, events>>

\* run, lines 185-187: the handler of an exception that escaped a phase
RunExcept ==
  /\ an_pc = "run_except"
  /\ report' = add_error(report, "Orchestration failed", NoId)
  /\ metrics' = [metrics EXCEPT !.files_failed = @ + Len(files)]
  /\ an_pc' = "run_return"
  /\ UNCHANGED <<files, batch_start, tasks, batch_results, file_index,
                 stored_nodes, stored_edges, result, escaped>>
  /\ UNCHANGED <<callVars, scanVars, visitVars, events>>

\* run, lines 189-200, then analyze_project, lines 68-78: the result is built
\* while the status is still in_progress, then the final status is set
RunReturn ==
  /\ an_pc = "run_return"
  /\ result' = [success |-> report.status # "failed"]
  /\ report' = [report EXCEPT
                  !.status = IF report.issues # <<>> THEN "completed_with_issues"
                             ELSE "completed",
                  !.completed_at = TRUE,
                  !.duration_seconds = TRUE]
  /\ an_pc' = "returned"
  /\ UNCHANGED <<metrics, files, batch_start, tasks, batch_results, file_index,
                 stored_nodes, stored_edges, escaped>>
  /\ UNCHANGED <<callVars, scanVars, visitVars, events>>

\* the handler raising the exception again after recording it
AnalyzeProjectExceptReraises ==
  /\ an_pc = "failed"
  /\ report' = [add_error(report, "Analysis failed", NoId) EXCEPT
                  !.status = "failed"]
  /\ an_pc' = "raised"
  /\ UNCHANGED <<metrics, files, batch_start, tasks, batch_results, file_index,
                 stored_nodes, stored_edges, result, escaped>>
  /\ UNCHANGED <<callVars, scanVars, visitVars, events>>

\* analyze_project, lines 80-92: the handler of an exception that escaped the
\* construction or the run
AnalyzeProjectExcept ==
  /\ an_pc = "failed"
  /\ report' = [add_error(report, "Analysis failed", NoId) EXCEPT
                  !.status = "failed",
                  !.completed_at = TRUE,
                  !.duration_seconds = TRUE]
  /\ result' = [success |-> FALSE]
  /\ an_pc' = "returned"
  /\ UNCHANGED <<metrics, files, batch_start, tasks, batch_results, file_index,
                 stored_nodes, stored_edges, escaped>>
  /\ UNCHANGED <<callVars, scanVars, visitVars, events>>

AnalyzeInit ==
  /\ an_pc = "idle"
  /\ report = [status |-> "pending", issues |-> <<>>, infos |-> <<>>,
               completed_at |-> FALSE, duration_seconds |-> FALSE]
  /\ metrics = NewMetrics
  /\ files = <<>>
  /\ batch_start = 0
  /\ tasks = EmptyMap
  /\ batch_results = EmptyMap
  /\ file_index = 1
  /\ stored_nodes = {}
  /\ stored_edges = {}
  /\ result = [success |-> FALSE]
  /\ escaped = "none"
  /\ self_config = DefaultConfig
  /\ analysis_config = DefaultConfig
  /\ discovered = <<>>
  /\ calls = <<>>

AnalyzeNext ==
  \/ AnalyzeProject
  \/ ConstructOrchestrator
  \/ DiscoverFiles
  \/ StartDeclarationPhase
  \/ StartBatch
  \/ \E f \in 1..MaxAnalyzed : TaskStep(f)
  \/ JoinBatch
  \/ StartAnalysisPhase
  \/ AnalyzeFile
  \/ LinkingPhase
  \/ PostProcessing
  \/ RunExcept
  \/ RunReturn
  \/ AnalyzeProjectExcept

\* up to MaxCalls calls on one ProjectAnalyzer, the first of which may be an
\* incremental one
IncrementalNext ==
  \/ AnalyzeNext
  \/ \E changed_files \in ChangedLists, explicit \in BOOLEAN : AnalyzeIncremental(changed_files, explicit)
  \/ NextCall


\* ----------------------------------------------- SymbolTable as an object
\* The public methods of one SymbolTable called in any order by a client;
\* events is the log of the calls made, each with its arguments and the id
\* it returned (NoId, "" and <<>> where the call has none).
TableQnames == {<<"a">>, <<"a", "b">>, <<"b">>, <<"a_b">>}

TableIds == {1, 2}

TableFiles == {1, 2}

TableAliases == {<<"np">>, <<"x">>}

TableTargets == {<<"numpy">>, <<"a", "b">>}

Call(op, file_id, alias, qname, id) ==
  [op |-> op, file_id |-> file_id, alias |-> alias, qname |-> qname, id |-> id]

TableAddSymbol(qname, db_id) ==
  /\ Len(events) < MaxTableOps
  /\ qname_to_id' = add_symbol(qname_to_id, qname, db_id)
  /\ events' = Append(events, Call("add_symbol", NoId, <<>>, qname, db_id))
  /\ UNCHANGED <<file_id_to_imports, tableRest, analyzeVars, visitVars>>

TableAddImport(file_id, alias, qname) ==
  /\ Len(events) < MaxTableOps
  /\ file_id_to_imports' = add_import(file_id_to_imports, file_id, alias, qname)
  /\ events' = Append(events, Call("add_import", file_id, alias, qname, NoId))
  /\ UNCHANGED <<qname_to_id, tableRest, analyzeVars, visitVars>>

TableClearFileImports(file_id) ==
  /\ Len(events) < MaxTableOps
  /\ file_id_to_imports' = clear_file_imports(file_id_to_imports, file_id)
  /\ events' = Append(events, Call("clear_file_imports", file_id, <<>>, <<>>, NoId))
  /\ UNCHANGED <<qname_to_id, tableRest, analyzeVars, visitVars>>

TableGetOrCreatePackageId(package_qname) ==
  LET r == get_or_create_package_id(qname_to_id, package_qname)
  IN /\ Len(events) < MaxTableOps
     /\ qname_to_id' = r.q2i
     /\ events' = Append(events, Call("get_or_create_package_id", NoId, <<>>, package_qname, r.id))
     /\ UNCHANGED <<file_id_to_imports, tableRest, analyzeVars, visitVars>>

TableNext ==
  \/ \E qname \in TableQnames, db_id \in TableIds : TableAddSymbol(qname, db_id)
  \/ \E file_id \in TableFiles, alias \in TableAliases, qname \in TableTargets : TableAddImport(file_id, alias, qname)
  \/ \E file_id \in TableFiles : TableClearFileImports(file_id)
  \/ \E package_qname \in TableQnames : TableGetOrCreatePackageId(package_qname)

\* ------------------------------------------- DependencyVisitor, step by step
\* the sources visited: relative imports of each level, attribute chains,
\* and scopes nested in each other with imports and usages inside
VSrcRelative(level) ==     \* from <level dots> import x, y as z / def f: x ; z.w
  <<ImpFrom(<<>>, level, "x", <<>>, 0), ImpFrom(<<>>, level, "y", <<"z">>, 0),
    Fn("f", 0), Use(<<"x">>, TRUE, TRUE, 3), Use(<<"z", "w">>, TRUE, TRUE, 3)>>

VSrcChain ==     \* import numpy as np / def f: np.b.c ; f().b ; q.r ; np.b = .. ; q ; np = .. / np
  <<Imp(<<"numpy">>, <<"np">>, 0), Fn("f", 0), Use(<<"np", "b", "c">>, TRUE, TRUE, 2),
    Use(<<"b">>, TRUE, FALSE, 2), Use(<<"q", "r">>, TRUE, TRUE, 2),
    Use(<<"np", "b">>, FALSE, TRUE, 2), Use(<<"q">>, TRUE, TRUE, 2),
    Use(<<"np">>, FALSE, TRUE, 2), Use(<<"np">>, TRUE, TRUE, 0)>>

VSrcScopes ==
  <<Imp(<<"numpy">>, <<"np">>, 0),        \*  1 import numpy as np
    Cls("C", 0),                          \*  2 class C:
    Use(<<"np">>, TRUE, TRUE, 2),         \*  3     np
    Fn("m", 2),                           \*  4     def m():
    Imp(<<"os">>, <<>>, 4),               \*  5         import os
    Use(<<"np">>, TRUE, TRUE, 4),         \*  6         np
    Cls("D", 2),                          \*  7     class D:
    Use(<<"os">>, TRUE, TRUE, 7),         \*  8         os
    Fn("g", 7),                           \*  9         def g():
    Use(<<"np", "array">>, TRUE, TRUE, 9),\* 10             np.array
    Fn("f", 0),                           \* 11 def f():
    Use(<<"np">>, TRUE, TRUE, 11),        \* 12     np
    Use(<<"np">>, TRUE, TRUE, 0)>>        \* 13 np

VSrcFromModule(level) ==     \* from <level dots>m import s / def f: s
  <<ImpFrom(<<"m">>, level, "s", <<>>, 0), Fn("f", 0), Use(<<"s">>, TRUE, TRUE, 2)>>

VisitSources ==
  {VSrcRelative(level) : level \in 1..3} \cup {VSrcFromModule(level) : level \in 1..2}
    \cup {VSrcChain, VSrcScopes, SrcNested}

VisitFileQnames == {<<"pkg", "sub", "mod">>, <<"mod">>}

\* the import maps that earlier detail passes left in the table before this
\* file is visited: none, the aliases of file 2, or the aliases q and old
\* of an earlier content of the visited file itself
VisitEarlierImports ==
  {EmptyMap, add_import(add_import(EmptyMap, 2, <<"q">>, <<"qlib">>), 2, <<"np">>, <<"other">>),
   add_import(add_import(EmptyMap, 1, <<"q">>, <<"qlib">>), 1, <<"old">>, <<"oldlib">>)}

\* the names of the classes around node i, outermost first
RECURSIVE EnclosingClasses(_, _)
EnclosingClasses(ast, i) ==
  IF i = 0 THEN <<>>
  ELSE EnclosingClasses(ast, ast[i].parent)
         \o (IF ast[i].kind = "class" THEN <<ast[i].name>> ELSE <<>>)

\* the qname under which the context manager looks a definition up
ScopeQname(ast, file_qname, i) ==
  IF ast[i].kind = "class" THEN file_qname \o EnclosingClasses(ast, i)
  ELSE file_qname \o EnclosingClasses(ast, ast[i].parent) \o <<ast[i].name>>

ScopeNodes(ast) == {i \in DOMAIN ast : ast[i].kind \in {"class", "func"}}

\* the Symbol Table after the declaration phase: the file is node 1 and the
\* registered definitions of the tree have the ids after it
RECURSIVE RegisterScopes(_, _, _, _)
RegisterScopes(q2i, ast, file_qname, registered) ==
  IF registered = {} THEN q2i
  ELSE LET i == CHOOSE x \in registered : \A y \in registered : x <= y
       IN RegisterScopes(add_symbol(q2i, ScopeQname(ast, file_qname, i), 1 + i),
                         ast, file_qname, registered \ {i})

ContextOf(consumer, stack) ==
  [visited |-> TRUE, current_consumer_id |-> consumer, class_stack |-> stack]

\* the second half of visit_function_def / visit_class_def, after the body
\* visit returned, without the restore of the consumer
leave_scope_keeps_consumer(frame, ctx) ==
  [ctx EXCEPT !.class_stack = IF frame.kind = "class" THEN Front(@) ELSE @]

\* the second half of visit_function_def / visit_class_def, after the body
\* visit returned
leave_scope(frame, ctx) ==
  [ctx EXCEPT !.current_consumer_id = IF frame.resolved THEN frame.previous_consumer ELSE @,
              !.class_stack = IF frame.kind = "class" THEN Front(@) ELSE @]

\* PythonFileParser.run_detail_pass from the VisitorContext on
VisitStart ==
  /\ v_pc = "idle"
  /\ scan_pc = "idle"
  /\ events = <<>>
  /\ \E tree \in VisitSources, file_qname \in VisitFileQnames :
       \E registered \in SUBSET ScopeNodes(tree) :
         /\ v_ast' = tree
         /\ qname_to_id' = RegisterScopes(add_symbol(EmptyMap, file_qname, 1),
                                          tree, file_qname, registered)
  /\ \E imports \in VisitEarlierImports : file_id_to_imports' = imports
  /\ v_file_id' = 1
  /\ v_next' = 1
  /\ v_pc' = "visiting"
  /\ UNCHANGED <<v_frames, current_consumer_id, class_stack, v_results,
                 processed_imports, tableRest, analyzeVars, events>>

\* the node reached next is inside every open definition
AtNode ==
  /\ v_pc = "visiting"
  /\ v_next <= Len(v_ast)
  /\ v_frames # <<>> => end_lineno(v_ast, Last(v_frames).node) >= v_next

\* visit_FunctionDef: the body is visited when the function's id is found
VisitFunctionDef ==
  /\ AtNode
  /\ v_ast[v_next].kind = "func"
  /\ LET ctx == visit_function_def(qname_to_id, v_file_id, v_ast[v_next],
                                   ContextOf(current_consumer_id, class_stack))
     IN IF ctx.visited
        THEN /\ v_frames' = Append(v_frames,
                    [node |-> v_next, kind |-> "func", resolved |-> TRUE,
                     previous_consumer |-> current_consumer_id,
                     before |-> ContextOf(current_consumer_id, class_stack)])
             /\ current_consumer_id' = ctx.current_consumer_id
             /\ v_next' = v_next + 1
        ELSE /\ v_next' = end_lineno(v_ast, v_next) + 1
             /\ UNCHANGED <<v_frames, current_consumer_id>>
  /\ UNCHANGED <<v_pc, v_ast, v_file_id, class_stack, v_results, processed_imports,
                 scanVars, analyzeVars, events>>

\* visit_ClassDef up to the visit of the body
VisitClassDef ==
  /\ AtNode
  /\ v_ast[v_next].kind = "class"
  /\ LET before == ContextOf(current_consumer_id, class_stack)
         ctx == visit_class_def(qname_to_id, v_file_id, v_ast[v_next], before)
     IN /\ v_frames' = Append(v_frames,
               [node |-> v_next, kind |-> "class",
                resolved |-> Get(qname_to_id, get_file_qname_from_context(qname_to_id, v_file_id) \o ctx.class_stack) # NoId,
                previous_consumer |-> current_consumer_id, before |-> before])
        /\ current_consumer_id' = ctx.current_consumer_id
        /\ class_stack' = ctx.class_stack
  /\ v_next' = v_next + 1
  /\ UNCHANGED <<v_pc, v_ast, v_file_id, v_results, processed_imports,
                 scanVars, analyzeVars, events>>

\* the body visit of the innermost open definition returned
LeaveScope ==
  /\ v_pc = "visiting"
  /\ v_frames # <<>>
  /\ end_lineno(v_ast, Last(v_frames).node) < v_next
  /\ LET ctx == leave_scope(Last(v_frames), ContextOf(current_consumer_id, class_stack))
     IN /\ current_consumer_id' = ctx.current_consumer_id
        /\ class_stack' = ctx.class_stack
  /\ v_frames' = Front(v_frames)
  /\ UNCHANGED <<v_pc, v_ast, v_file_id, v_next, v_results, processed_imports,
                 scanVars, analyzeVars, events>>

\* visit_Import
VisitImport ==
  /\ AtNode
  /\ v_ast[v_next].kind = "import"
  /\ file_id_to_imports' = process_import(file_id_to_imports, v_file_id, v_ast[v_next])
  /\ processed_imports' = Append(processed_imports, v_next)
  /\ v_next' = v_next + 1
  /\ UNCHANGED <<v_pc, v_ast, v_file_id, v_frames, current_consumer_id, class_stack,
                 v_results, qname_to_id, tableRest, analyzeVars, events>>

\* visit_ImportFrom
VisitImportFrom ==
  /\ AtNode
  /\ v_ast[v_next].kind = "importfrom"
  /\ file_id_to_imports' = process_import_from(qname_to_id, file_id_to_imports, v_file_id, v_ast[v_next])
  /\ processed_imports' = Append(processed_imports, v_next)
  /\ v_next' = v_next + 1
  /\ UNCHANGED <<v_pc, v_ast, v_file_id, v_frames, current_consumer_id, class_stack,
                 v_results, qname_to_id, tableRest, analyzeVars, events>>

\* visit_Name / visit_Attribute on an expression
VisitUse ==
  /\ AtNode
  /\ v_ast[v_next].kind = "use"
  /\ v_results' = v_results \o UsageEdges(v_ast, file_id_to_imports, v_file_id,
                                          current_consumer_id, processed_imports, v_next)
  /\ v_next' = v_next + 1
  /\ UNCHANGED <<v_pc, v_ast, v_file_id, v_frames, current_consumer_id, class_stack,
                 processed_imports, scanVars, analyzeVars, events>>

\* visitor.visit(tree) returned
VisitFinish ==
  /\ v_pc = "visiting"
  /\ v_next > Len(v_ast)
  /\ v_frames = <<>>
  /\ v_pc' = "done"
  /\ UNCHANGED <<v_ast, v_file_id, v_next, v_frames, current_consumer_id, class_stack,
                 v_results, processed_imports, scanVars, analyzeVars, events>>

VisitInit ==
  /\ v_pc = "idle"
  /\ v_ast = <<>>
  /\ v_file_id = NoId
  /\ v_next = 1
  /\ v_frames = <<>>
  /\ current_consumer_id = NoId
  /\ class_stack = <<>>
  /\ v_results = <<>>
  /\ processed_imports = <<>>

VisitNext ==
  \/ VisitStart
  \/ VisitFunctionDef
  \/ VisitClassDef
  \/ LeaveScope
  \/ VisitImport
  \/ VisitImportFrom
  \/ VisitUse
  \/ VisitFinish

vars == <<scanVars, analyzeVars, visitVars, events>>

Init == ScanInit /\ AnalyzeInit /\ VisitInit /\ events = <<>>

Next == ScanNext \/ AnalyzeNext

\* one scan or one analysis per behaviour
Spec == Init /\ [][Next]_vars

SpecScan == Init /\ [][ScanNext]_vars

\* a table filled and read by a client of its own
SpecTable == Init /\ [][TableNext]_vars

\* the dependency traversal of one file
SpecVisit == Init /\ [][VisitNext]_vars

SpecAnalyze == Init /\ [][AnalyzeNext]_vars

\* the event loop runs every task that can run
SpecAnalyzeFair == SpecAnalyze /\ WF_vars(AnalyzeNext)

\* several calls on one analyzer, incremental ones among them
SpecIncremental == Init /\ [][IncrementalNext]_vars

\* ================================================================= claims
\* the rank of an event's phase in Discovery, Declaration, Dependency,
\* Linking, Post-processing
PhaseRank(e) ==
  CASE e[1] = "discovery" -> 0
    [] e[1] = "declaration" -> 1
    [] e[1] = "dependency" -> 2
    [] e[1] = "linking" -> 3
    [] OTHER -> 4

\* the files of the run whose declaration pass can run, and whether the
\* declaration pass of every file has finished
RunFiles ==
  IF scan_pc # "idle"
  THEN {p \in Range(py_files) : disk[p].status # "unreadable"}
  ELSE Range(files)

DeclarationFinished ==
  IF scan_pc # "idle"
  THEN node_index > Len(declared_nodes)
  ELSE tasks = EmptyMap /\ Range(files) \subseteq DOMAIN batch_results

\* C1: in every run (scan or analysis) the phases start in the order
\* Discovery, Declaration, Dependency, Linking, Post-processing, each phase and
\* each file's pass at most once; when a file's dependency pass has started the
\* declaration pass of every file of the run has started earlier and finished,
\* and post-processing starts only after every file's dependency pass.
C1_PhaseOrder ==
  /\ \A i, j \in DOMAIN events :
       i < j => /\ PhaseRank(events[i]) <= PhaseRank(events[j])
                /\ events[i] # events[j]
  /\ \A i \in DOMAIN events :
       (events[i][1] = "dependency" /\ Len(events[i]) = 2) =>
         /\ DeclarationFinished
         /\ \A p \in RunFiles : \E j \in 1..(i - 1) : events[j] = <<"declaration", p>>
  /\ \A i \in DOMAIN events :
       events[i] = <<"post_processing">> =>
         /\ file_index > Len(files)
         /\ \A f \in Range(files) : \E j \in 1..(i - 1) : events[j] = <<"dependency", f>>

C1_Witness ==
  /\ scan_pc = "done"
  /\ Len(py_files) = 2
  /\ \A p \in Range(py_files) :
       <<"declaration", p>> \in Range(events) /\ <<"dependency", p>> \in Range(events)

C7_PackageDedup ==
  /\ \A i, j \in DOMAIN nodes :
       (nodes[i].kind = "package" /\ nodes[j].kind = "package"
          /\ nodes[i].qname = nodes[j].qname) => i = j
  /\ \A k \in DOMAIN uses_import_edges :
       \A i \in DOMAIN nodes :
         (nodes[i].kind = "package"
            /\ nodes[i].qname = uses_import_edges[k].target_qname)
           => uses_import_edges[k].to_id = i

\* two files that each use `import numpy`: one numpy Package node, two edges
C7_Witness ==
  /\ scan_pc = "done"
  /\ Cardinality({i \in DOMAIN nodes : nodes[i].kind = "package"
                                       /\ nodes[i].qname = <<"numpy">>}) = 1
  /\ \E k, l \in DOMAIN uses_import_edges :
       /\ uses_import_edges[k].from_id # uses_import_edges[l].from_id
       /\ uses_import_edges[k].target_qname = <<"numpy">>
       /\ uses_import_edges[l].target_qname = <<"numpy">>
       /\ uses_import_edges[k].to_id = uses_import_edges[l].to_id
       /\ nodes[uses_import_edges[k].to_id].kind = "package"

\* C8: a step that persists a UsesImport edge gives it a destination that is
\* not the placeholder and is the id of a persisted node: the id registered
\* for the target qname when the qname is classified local, otherwise the id
\* of the Package node of that qname.
C8_RealDestination ==
  [][Len(uses_import_edges') > Len(uses_import_edges) =>
       LET e == uses_import_edges'[Len(uses_import_edges')]
       IN /\ e.to_id # NoId
          /\ e.to_id \in DOMAIN nodes'
          /\ IF is_local_module(qname_to_id, e.target_qname)
             THEN /\ e.to_id = get_symbol_id(qname_to_id, e.target_qname)
                  /\ e.to_id \in DOMAIN nodes
             ELSE /\ nodes'[e.to_id].kind = "package"
                  /\ nodes'[e.to_id].qname = e.target_qname]_vars

\* an edge to a local symbol and an edge to a Package node are persisted
C8_Witness ==
  \E k, l \in DOMAIN uses_import_edges :
    /\ nodes[uses_import_edges[k].to_id].kind = "package"
    /\ nodes[uses_import_edges[l].to_id].kind = "function"

\* C9: no two declarations of a run share a qname, so add_symbol never
\* replaces the id of another declaration of the run: every persisted
\* declaration's id is still registered in qname_to_id.
C9_UniqueQnames ==
  \A id \in DOMAIN nodes : \E q \in DOMAIN qname_to_id : qname_to_id[q] = id

C3_PartialFailure ==
  LET failing == {f \in DOMAIN batch_results : batch_results[f] = "error"}
  IN /\ \A f \in failing :
          \E k \in DOMAIN report.issues :
            report.issues[k].severity = "error" /\ report.issues[k].file_path = f
     /\ metrics.files_failed >= Cardinality(failing)
     /\ \A f \in (DOMAIN batch_results) \ failing : NodesOf(f) \subseteq stored_nodes
     /\ (an_pc = "returned" /\ failing # {}) => report.status = "completed_with_issues"

\* C4: when analyze_project has returned, the status is completed,
\* completed_with_issues or failed; it is completed exactly when no issue was
\* recorded and failed exactly when an exception escaped the construction or
\* a phase.
C4_TerminalStatus ==
  an_pc = "returned" =>
    /\ report.status \in {"completed", "completed_with_issues", "failed"}
    /\ (report.status = "completed") <=> (report.issues = <<>>)
    /\ (report.status = "failed") <=> (escaped # "none")

\* C5: every call of analyze_project returns, with completed_at and
\* duration_seconds set in the report, whatever was raised on the way.
C5_AlwaysReturns ==
  (an_pc = "construct") ~>
     (an_pc = "returned" /\ report.completed_at /\ report.duration_seconds)

\* a run in which a file's task raised and a later phase raised has returned
C5_Witness ==
  /\ an_pc = "returned"
  /\ report.completed_at
  /\ report.duration_seconds
  /\ escaped \in {"dependency", "linking", "post_processing"}
  /\ \E f \in DOMAIN batch_results : batch_results[f] = "error"

IsCall == Len(events') = Len(events) + 1

TheCall == events'[Len(events')]

QueryQnames == TableQnames \cup {<<"a", "b", "c">>, <<"c">>, <<"b", "a">>}

\* C11: every qname registered through add_symbol is classified as local
\* by is_local_module, whatever calls were made on the table afterwards.
C11_RegisteredIsLocal ==
  \A i \in DOMAIN events :
    events[i].op = "add_symbol" => is_local_module(qname_to_id, events[i].qname)

C11_Witness ==
  /\ Len(events) = 3
  /\ events[1].op = "add_symbol" /\ events[1].qname = <<"a", "b">>
  /\ events[2].op = "get_or_create_package_id"
  /\ events[3].op = "add_symbol" /\ events[3].qname = <<"b">>

C13_ImportAlgebra ==
  [][IsCall =>
      LET c == TheCall
          Same(F, a) == resolve_import_qname(file_id_to_imports', F, a)
                          = resolve_import_qname(file_id_to_imports, F, a)
      IN /\ c.op = "add_import" =>
              /\ resolve_import_qname(file_id_to_imports', c.file_id, c.alias) = c.qname
              /\ \A F \in TableFiles, a \in TableAliases :
                    (F # c.file_id \/ a # c.alias) => Same(F, a)
              /\ qname_to_id' = qname_to_id
         /\ c.op = "clear_file_imports" =>
              /\ \A a \in TableAliases :
                    resolve_import_qname(file_id_to_imports', c.file_id, a) = <<>>
              /\ \A F \in TableFiles \ {c.file_id} :
                    /\ (F \in DOMAIN file_id_to_imports') = (F \in DOMAIN file_id_to_imports)
                    /\ F \in DOMAIN file_id_to_imports =>
                          file_id_to_imports'[F] = file_id_to_imports[F]
              /\ c.file_id \notin DOMAIN file_id_to_imports =>
                    file_id_to_imports' = file_id_to_imports
              /\ qname_to_id' = qname_to_id
         /\ c.op \notin {"add_import", "clear_file_imports"} =>
              file_id_to_imports' = file_id_to_imports]_vars

C13_Witness ==
  /\ Len(events) = 3
  /\ events[1].op = "add_import" /\ events[1].file_id = 1
  /\ events[2].op = "add_import" /\ events[2].file_id = 2
  /\ events[3].op = "clear_file_imports" /\ events[3].file_id = 1
  /\ resolve_import_qname(file_id_to_imports, 1, events[1].alias) = <<>>
  /\ resolve_import_qname(file_id_to_imports, 2, events[2].alias) = events[2].qname

\* C14: get_or_create_package_id(q) returns the registered id and leaves
\* the table as it is when q is a key; otherwise it registers and returns a
\* placeholder id; a later call for the same q returns the same id unless
\* add_symbol(q, .) was called in between.
C14_PackageIds ==
  [][(IsCall /\ TheCall.op = "get_or_create_package_id") =>
      LET c == TheCall
      IN /\ c.qname \in DOMAIN qname_to_id =>
              c.id = qname_to_id[c.qname] /\ qname_to_id' = qname_to_id
         /\ c.qname \notin DOMAIN qname_to_id =>
              /\ c.id \notin TableIds
              /\ c.id = placeholder_id(c.qname)
              /\ qname_to_id' = Put(qname_to_id, c.qname, c.id)
         /\ \A j \in DOMAIN events :
              ( /\ events[j].op = "get_or_create_package_id"
                /\ events[j].qname = c.qname
                /\ \A k \in (j + 1)..Len(events) :
                      ~(events[k].op = "add_symbol" /\ events[k].qname = c.qname) )
              => c.id = events[j].id
         /\ file_id_to_imports' = file_id_to_imports]_vars

C14_Witness ==
  /\ Len(events) = 3
  /\ events[1].op = "get_or_create_package_id" /\ events[1].qname = <<"a", "b">>
  /\ events[2].op = "get_or_create_package_id" /\ events[2].qname = <<"a_b">>
  /\ events[3].op = "get_or_create_package_id" /\ events[3].qname = <<"a", "b">>
  /\ events[3].id = events[1].id /\ events[1].id < 0


\* ------------------------------------------------------------- C15 .. C20
\* the step-by-step traversal ends with the edges, the imports and the
\* processed list of the traversal computed as one function
VisitAgrees ==
  v_pc = "done" =>
    \E earlier \in VisitEarlierImports :
      LET st == DependencyVisitor(v_ast, qname_to_id, v_file_id, 1,
                  [imports |-> earlier, results |-> <<>>, processed |-> <<>>])
      IN /\ st.results = v_results
         /\ st.imports = file_id_to_imports
         /\ st.processed = processed_imports

\* the dotted path of the visited file
VisitedFileQname == CHOOSE q \in DOMAIN qname_to_id : qname_to_id[q] = v_file_id

\* C15: a from-import without module name and with level L, in a file whose
\* dotted path has more than L parts, registers each imported name S under
\* its alias as (the path without its last L parts).S
C15_RelativeImportBase ==
  [][(AtNode /\ v_ast[v_next].kind = "importfrom" /\ v_next' = v_next + 1) =>
      LET node == v_ast[v_next]
          L == node.level
          path == VisitedFileQname
          alias == IF node.asname # <<>> THEN node.asname ELSE <<node.name>>
      IN (node.module = <<>> /\ L >= 1 /\ Len(path) > L) =>
           resolve_import_qname(file_id_to_imports', v_file_id, alias)
             = SubSeq(path, 1, Len(path) - L) \o <<node.name>>]_vars

\* pkg.sub.mod holding "from .. import x, y as z": x is pkg.x and z is pkg.y
C15_Witness ==
  /\ v_pc = "done"
  /\ v_ast = VSrcRelative(2)
  /\ VisitedFileQname = <<"pkg", "sub", "mod">>
  /\ resolve_import_qname(file_id_to_imports, v_file_id, <<"x">>) = <<"pkg", "x">>
  /\ resolve_import_qname(file_id_to_imports, v_file_id, <<"z">>) = <<"pkg", "y">>

\* the step visits the expression at v_next
IsVisitUse == AtNode /\ v_ast[v_next].kind = "use" /\ v_next' = v_next + 1

\* the edges that the step added to context.results
NewEdges == SubSeq(v_results', Len(v_results) + 1, Len(v_results'))

\* C16: the chain reconstructed from an attribute access rooted in a simple
\* name is the names of the source text in their order; rooted in anything
\* else it is empty and the visit emits no edge; when the root is an alias
\* of the file, the edge emitted for the access has as target the alias's
\* qname followed by the rest of the chain.
C16_AttributeChains ==
  [][(IsVisitUse /\ v_ast[v_next].expr.type = "Attribute") =>
      LET node == v_ast[v_next]
          root == resolve_import_qname(file_id_to_imports, v_file_id, <<node.chain[1]>>)
      IN /\ node.rooted => reconstruct_attribute_chain(node.expr) = node.chain
         /\ ~node.rooted =>
              reconstruct_attribute_chain(node.expr) = <<>> /\ NewEdges = <<>>
         /\ (node.rooted /\ node.load /\ current_consumer_id # NoId /\ root # <<>>) =>
              /\ NewEdges # <<>>
              /\ NewEdges[1].target_qname = root \o Tail(node.chain)
              /\ NewEdges[1].from_id = current_consumer_id]_vars

\* np.b.c, f().b, q.r and a store to np.b inside a registered function:
\* edges to numpy.b.c, numpy.b and numpy only
C16_Witness ==
  /\ v_pc = "done"
  /\ v_ast = VSrcChain
  /\ Len(v_results) = 3
  /\ v_results[1].target_qname = <<"numpy", "b", "c">>
  /\ v_results[2].target_qname = <<"numpy", "b">>
  /\ v_results[3].target_qname = <<"numpy">>

\* the id of the closest definition around node i whose lookup resolved
RECURSIVE InnermostResolved(_, _)
InnermostResolved(ast, i) ==
  LET j == ast[i].parent
  IN IF j = 0 THEN NoId
     ELSE IF Get(qname_to_id, ScopeQname(ast, VisitedFileQname, j)) # NoId
     THEN Get(qname_to_id, ScopeQname(ast, VisitedFileQname, j))
     ELSE InnermostResolved(ast, j)

\* C19: when the visit of a function or class definition returns, the
\* consumer id and the class stack are what they were just before the
\* visit; every emitted edge's from-id is the id of the innermost enclosing
\* resolved scope; after the whole module the consumer is none and the
\* class stack is empty.
C19_ScopesRestored ==
  [][/\ (v_pc = "visiting" /\ Len(v_frames') < Len(v_frames)) =>
          ContextOf(current_consumer_id', class_stack') = Last(v_frames).before
     /\ (AtNode /\ v_ast[v_next].kind = "func" /\ v_frames' = v_frames) =>
          (current_consumer_id' = current_consumer_id /\ class_stack' = class_stack)
     /\ IsVisitUse =>
          \A k \in DOMAIN NewEdges :
            NewEdges[k].from_id = InnermostResolved(v_ast, v_next)
     /\ v_pc' = "done" => (current_consumer_id' = NoId /\ class_stack' = <<>>)]_vars

\* every definition of VSrcScopes registered: the usages in C, m, D, g and f
\* are attributed to C, m, D, g (twice) and f
C19_Witness ==
  /\ v_pc = "done"
  /\ v_ast = VSrcScopes
  /\ Len(v_results) = 6
  /\ [k \in 1..6 |-> v_results[k].from_id] = <<3, 5, 8, 10, 10, 12>>
  /\ current_consumer_id = NoId
  /\ class_stack = <<>>

\* the definition at node j was not found in the Symbol Table
Unresolved(ast, j) == Get(qname_to_id, ScopeQname(ast, VisitedFileQname, j)) = NoId

\* C20: the body of a function or class whose qname is not in the Symbol
\* Table is still visited, so that when the traversal ends every import
\* statement of the file has been processed; and a usage directly inside
\* such a definition produces no edge, also inside a resolved scope.
C20_UnresolvedBodies ==
  [][/\ (v_pc = "visiting" /\ v_pc' = "done") =>
          \A i \in DOMAIN v_ast :
            v_ast[i].kind \in {"import", "importfrom"} => i \in Range(processed_imports')
     /\ (IsVisitUse /\ v_ast[v_next].parent # 0
           /\ Unresolved(v_ast, v_ast[v_next].parent)) => NewEdges = <<>>]_vars

\* ------------------------------------------------------------- C17, C18
\* the step is the declaration pass, or the detail pass, of the file at the
\* cursor, and the pass was run (the file was not skipped by the scanner)
RanDeclarationPass == scan_pc = "declaration" /\ cursor' = cursor + 1 /\ events' # events

RanDetailPass == scan_pc = "dependency" /\ cursor' = cursor + 1 /\ events' # events

TableAndCacheUnchanged ==
  /\ qname_to_id' = qname_to_id
  /\ file_id_to_imports' = file_id_to_imports
  /\ ast_cache' = ast_cache

\* C17: a syntax error makes run_declaration_pass return the empty list,
\* and a cache miss followed by an I/O or a syntax failure makes
\* run_detail_pass return the empty list; both leave the Symbol Table and
\* the AST cache as they were.
C17_FailuresAreEmpty ==
  [][/\ (RanDeclarationPass /\ disk[py_files[cursor]].status = "syntax_error") =>
          (declared_nodes' = <<>> /\ TableAndCacheUnchanged)
     /\ (RanDetailPass /\ ~cache_has(ast_cache, py_files[cursor])
           /\ disk[py_files[cursor]].status \in {"syntax_error", "unreadable"}) =>
          (dependency_edges' = <<>> /\ TableAndCacheUnchanged)]_vars

\* both passes ran on a file with a syntax error in a scan in which another
\* file registered imports
C17_Witness ==
  /\ \E i, j \in DOMAIN events :
       /\ i < j
       /\ events[i][1] = "declaration" /\ events[j][1] = "dependency"
       /\ events[i][2] = events[j][2]
       /\ disk[events[i][2]].status = "syntax_error"
  /\ file_id_to_imports # EmptyMap
  /\ scan_pc = "done"

\* C18: after a successful declaration pass on p the AST cache returns for
\* p the tree parsed in that pass, and after a detail pass that parsed p the
\* next lookup of p hits.
C18_CacheHoldsTree ==
  [][/\ (RanDeclarationPass /\ disk[py_files[cursor]].status = "ok") =>
          /\ cache_has(ast_cache', py_files[cursor])
          /\ cache_get(ast_cache', py_files[cursor]) = disk[py_files[cursor]].ast
     /\ (RanDetailPass /\ disk[py_files[cursor]].status = "ok") =>
          cache_has(ast_cache', py_files[cursor])]_vars

\* ------------------------------------------------------------- C21 .. C30
\* C21: a bare name yields an edge only when it is read, a consumer is set
\* and the name is an alias in the import map of the visited file; a name
\* that is assigned to yields none, and neither does an alias that only
\* another file imported.
C21_BareNameUsage ==
  [][(IsVisitUse /\ v_ast[v_next].expr.type = "Name") =>
      LET node == v_ast[v_next]
          own == v_file_id \in DOMAIN file_id_to_imports
                   /\ <<node.expr.id>> \in DOMAIN file_id_to_imports[v_file_id]
      IN /\ NewEdges # <<>> => (node.load /\ current_consumer_id # NoId /\ own)
         /\ (node.load /\ current_consumer_id # NoId /\ own) =>
              /\ Len(NewEdges) = 1
              /\ NewEdges[1].target_qname = file_id_to_imports[v_file_id][<<node.expr.id>>]]_vars

\* file 2 imported q and np; the visited file imports np only: the read of
\* q, the store to np and the module-level np give no edge, the chain gives 3
C21_Witness ==
  /\ v_pc = "done"
  /\ v_ast = VSrcChain
  /\ 2 \in DOMAIN file_id_to_imports
  /\ Len(v_results) = 3
  /\ \A k \in DOMAIN v_results : v_results[k].alias = <<"np">>
  /\ v_results[3].target_qname = <<"numpy">>

\* the declaration tasks that were created and have not finished
InFlight == {f \in DOMAIN tasks : tasks[f].pc # "done"}

\* the files whose declaration task was started, as often as it was
DeclarationStarts(f) == {i \in DOMAIN events : events[i] = <<"declaration", f>>}

\* C22: the declaration phase works on consecutive batches of at most
\* batch_size files, every file is in exactly one batch, at most batch_size
\* tasks are in flight, a batch starts only when the batch before it has
\* finished, and outside the declaration phase no task is in flight.
C22_Batches ==
  /\ Cardinality(InFlight) <= BatchSize
  /\ an_pc = "gather" =>
       /\ batch_start % BatchSize = 0
       /\ DOMAIN tasks = {files[k] : k \in {j \in DOMAIN files :
                              batch_start < j /\ j <= batch_start + BatchSize}}
       /\ \A k \in DOMAIN files : k <= batch_start => files[k] \in DOMAIN batch_results
       /\ \A k \in DOMAIN files : k > batch_start => files[k] \notin DOMAIN batch_results
  /\ an_pc # "gather" => tasks = EmptyMap
  /\ \A f \in Range(files) : Cardinality(DeclarationStarts(f)) <= 1
  /\ an_pc \in {"analysis", "post_processing"} =>
       /\ DOMAIN batch_results = Range(files)
       /\ \A f \in Range(files) : Cardinality(DeclarationStarts(f)) = 1

\* the second batch is in flight after the first one was joined
C22_Witness ==
  /\ an_pc = "gather"
  /\ batch_start = BatchSize
  /\ InFlight # {}
  /\ Cardinality(DOMAIN batch_results) = BatchSize

\* the run is past the discovery and works on files
PastDiscovery == an_pc \in {"declaration", "batch", "gather", "analysis", "post_processing"}

\* C23: in incremental mode the files analysed are exactly the discovered
\* files whose path is one of changed_files, each of them once.
C23_IncrementalExact ==
  (analysis_config.incremental /\ PastDiscovery) =>
    /\ Range(files) = {f \in Range(discovered) :
                         \E k \in DOMAIN analysis_config.changed_files :
                           analysis_config.changed_files[k] = FilePath(f)}
    /\ \A i, j \in DOMAIN files : i # j => files[i] # files[j]

\* C27: analyze_incremental without a config leaves the analyzer's default
\* configuration as it was, and an analyze_project without a config that
\* follows it analyses every discovered file, not incrementally.
C27_DefaultConfigKept ==
  /\ self_config = DefaultConfig
  /\ (Len(calls) = 2 /\ calls[1] = "analyze_incremental"
        /\ calls[2] = "analyze_project" /\ PastDiscovery) =>
       (~analysis_config.incremental /\ files = discovered)

\* C30: when a run has returned, the failed-file count is at most the
\* processed-file count.
C30_FailedAtMostProcessed ==
  an_pc = "returned" => metrics.files_failed <= metrics.files_processed

\* qnames of third-party modules, none of them a file of the analysed project
ExternalQnames == {<<"numpy">>, <<"numpy", "array">>, <<"numpy", "array", "x">>, <<"os">>}

\* C25: the classification of a qname outside the project does not change
\* when a Package node is registered for another qname: a qname that
\* is_local_module calls external before a step, and that the step does not
\* register itself, is still called external after it.
C25_ClassificationStable ==
  [][\A q \in ExternalQnames \ DOMAIN qname_to_id' :
       ~is_local_module(qname_to_id, q) => ~is_local_module(qname_to_id', q)]_vars

\* C29: the reconciliation of one returned UsesImport edge that has a
\* non-empty target qname persists exactly one edge, for a local target as
\* for an external one.
C29_EveryEdgePersisted ==
  [][(scan_pc = "dependency" /\ dependency_edges # <<>>
        /\ dependency_edges' = Tail(dependency_edges)
        /\ Head(dependency_edges).target_qname # <<>>) =>
       /\ Len(uses_import_edges') = Len(uses_import_edges) + 1
       /\ uses_import_edges'[Len(uses_import_edges')].target_qname =
            Head(dependency_edges).target_qname]_vars

\* C26: a from-import that names a module M and has level L >= 1, in a file
\* whose dotted path has more than L parts, registers the imported name S
\* under its alias as base.M.S, base being the path without its last L parts.
C26_RelativeModuleImport ==
  [][(AtNode /\ v_ast[v_next].kind = "importfrom" /\ v_next' = v_next + 1) =>
      LET node == v_ast[v_next]
          L == node.level
          path == VisitedFileQname
          alias == IF node.asname # <<>> THEN node.asname ELSE <<node.name>>
      IN (node.module # <<>> /\ L >= 1 /\ Len(path) > L) =>
           resolve_import_qname(file_id_to_imports', v_file_id, alias)
             = SubSeq(path, 1, Len(path) - L) \o node.module \o <<node.name>>]_vars

\* the aliases that the import statements of the visited content bind
CurrentAliases ==
  {UsedName(v_ast[i]) : i \in {j \in DOMAIN v_ast : v_ast[j].kind \in {"import", "importfrom"}}}

\* C28: during and after a detail pass of a file, every alias that resolves
\* for the file is bound by an import statement of the content being
\* visited, and every edge of the pass carries such an alias.
C28_OnlyCurrentAliases ==
  v_pc \in {"visiting", "done"} =>
    /\ \A alias \in {<<"q">>, <<"old">>, <<"np">>, <<"s">>, <<"x">>} \ CurrentAliases :
         resolve_import_qname(file_id_to_imports, v_file_id, alias) = <<>>
    /\ \A k \in DOMAIN v_results : v_results[k].alias \in CurrentAliases

\* C24: no two files of a run register the same qname, and a file whose
\* declaration task succeeded is still the one its qname is mapped to,
\* whichever task of its batch wrote last.
C24_SingleWriterPerQname ==
  /\ \A f, g \in Range(files) : f # g => DeclaredQname(f) # DeclaredQname(g)
  /\ \A f \in DOMAIN batch_results :
       batch_results[f] = "nodes" => get_symbol_id(qname_to_id, DeclaredQname(f)) = f

====
